---- MODULE Spec2Model ----
(***************************************************************************)
(* Model of proxy.py: a request router in front of a backend API process  *)
(* and a directory of static files, run either as a standalone listening  *)
(* server (main) or per request by a serverless gateway (lambda_handler). *)
(*                                                                         *)
(* Python str values are sequences of one-character strings, bytes values *)
(* are sequences of integers 0..255, a dict is the sequence of its        *)
(* <<key, value>> items in insertion order, and Optional[bytes] is a      *)
(* record with an isNone flag.                                             *)
(***************************************************************************)
EXTENDS Integers, Sequences, FiniteSets, TLC

(* ------------------------------------------------------------------ *)
(* String literals of the source                                       *)
(* ------------------------------------------------------------------ *)

LowerAlpha == <<"a", "b", "c", "d", "e", "f", "g", "h", "i", "j", "k", "l", "m", "n", "o", "p", "q", "r", "s", "t", "u", "v", "w", "x", "y", "z">>
UpperAlpha == <<"A", "B", "C", "D", "E", "F", "G", "H", "I", "J", "K", "L", "M", "N", "O", "P", "Q", "R", "S", "T", "U", "V", "W", "X", "Y", "Z">>
Digits == <<"0", "1", "2", "3", "4", "5", "6", "7", "8", "9">>

\* HTTP methods as they arrive (BaseHTTPRequestHandler.command, event method)
GET == <<"G", "E", "T">>
HEAD == <<"H", "E", "A", "D">>
POST == <<"P", "O", "S", "T">>
get_lc == <<"g", "e", "t">>

\* literals of _root_handler and _static_handler
P_root == <<"/">>
INDEX_HTML == <<"/", "i", "n", "d", "e", "x", ".", "h", "t", "m", "l">>
PFX_api == <<"/", "a", "p", "i", "/">>
H_ContentLength == <<"C", "o", "n", "t", "e", "n", "t", "-", "L", "e", "n", "g", "t", "h">>
H_ContentType == <<"C", "o", "n", "t", "e", "n", "t", "-", "T", "y", "p", "e">>
T_text_plain == <<"t", "e", "x", "t", "/", "p", "l", "a", "i", "n">>
B_BadRequest == <<66, 97, 100, 32, 82, 101, 113, 117, 101, 115, 116>>
B_NotFound == <<78, 111, 116, 32, 70, 111, 117, 110, 100>>

\* STATIC_PATH default, relative to the working directory
STATIC_PATH == <<"a", "p", "p", "/", "b", "u", "i", "l", "d">>

\* extensions and types of mimetypes.types_map that the modelled files use
EXT_html == <<".", "h", "t", "m", "l">>
EXT_js == <<".", "j", "s">>
EXT_png == <<".", "p", "n", "g">>
EXT_txt == <<".", "t", "x", "t">>
EXT_svg == <<".", "s", "v", "g">>
EXT_json == <<".", "j", "s", "o", "n">>
T_text_html == <<"t", "e", "x", "t", "/", "h", "t", "m", "l">>
T_app_js == <<"a", "p", "p", "l", "i", "c", "a", "t", "i", "o", "n", "/", "j", "a", "v", "a", "s", "c", "r", "i", "p", "t">>
T_image_png == <<"i", "m", "a", "g", "e", "/", "p", "n", "g">>
T_svg == <<"i", "m", "a", "g", "e", "/", "s", "v", "g", "+", "x", "m", "l">>
T_app_json == <<"a", "p", "p", "l", "i", "c", "a", "t", "i", "o", "n", "/", "j", "s", "o", "n">>

\* path segments of the modelled file system
SEG_app == <<"a", "p", "p">>
SEG_build == <<"b", "u", "i", "l", "d">>
SEG_index == <<"i", "n", "d", "e", "x", ".", "h", "t", "m", "l">>
SEG_ajs == <<"a", ".", "j", "s">>
SEG_img == <<"i", "m", "g">>
SEG_bpng == <<"b", ".", "p", "n", "g">>
SEG_stxt == <<"s", ".", "t", "x", "t">>
SEG_up == <<".", ".">>
SEG_dot == <<".">>
SEG_srv == <<"s", "r", "v">>

\* request paths drawn as inputs
P_index == <<"/", "i", "n", "d", "e", "x", ".", "h", "t", "m", "l">>
P_api_slash == <<"/", "a", "p", "i", "/">>
P_api_date == <<"/", "a", "p", "i", "/", "d">>
P_api_bare == <<"/", "a", "p", "i">>
P_js == <<"/", "a", ".", "j", "s">>
P_missing == <<"/", "x">>
P_dir == <<"/", "i", "m", "g">>
P_png == <<"/", "i", "m", "g", "/", "b", ".", "p", "n", "g">>
P_up == <<"/", ".", ".", "/", "s", ".", "t", "x", "t">>
P_apix == <<"/", "a", "p", "i", "x">>
P_dots == <<"/", "/", ".", "/", "a", ".", "j", "s">>
P_JS_uc == <<"/", "a", ".", "J", "S">>
P_long(n) == <<"/">> \o [i \in 1..n |-> "a"]

H_SetCookie == <<"S", "e", "t", "-", "C", "o", "o", "k", "i", "e">>
H_Cookie == <<"C", "o", "o", "k", "i", "e">>
H_XA == <<"X", "-", "A">>
V_a1 == <<"a", "=", "1">>
V_b2 == <<"b", "=", "2">>
V_v == <<"v">>

\* the standalone adapter's fixed per-request timeout, in milliseconds
StandaloneTimeoutMs == 15000

(* ------------------------------------------------------------------ *)
(* str and bytes operations                                            *)
(* ------------------------------------------------------------------ *)
\* Optional[bytes]
None == [isNone |-> TRUE, bytes |-> <<>>]
Some(b) == [isNone |-> FALSE, bytes |-> b]

\* str.startswith
StartsWith(s, p) == Len(s) >= Len(p) /\ SubSeq(s, 1, Len(p)) = p

\* str.lstrip(c)
RECURSIVE LStrip(_, _)
LStrip(s, c) == IF s # <<>> /\ Head(s) = c THEN LStrip(Tail(s), c) ELSE s

UpperChar(c) ==
    IF \E i \in 1..Len(LowerAlpha) : LowerAlpha[i] = c
    THEN UpperAlpha[CHOOSE i \in 1..Len(LowerAlpha) : LowerAlpha[i] = c]
    ELSE c

LowerChar(c) ==
    IF \E i \in 1..Len(UpperAlpha) : UpperAlpha[i] = c
    THEN LowerAlpha[CHOOSE i \in 1..Len(UpperAlpha) : UpperAlpha[i] = c]
    ELSE c

\* str.upper, str.lower
Upper(s) == [i \in 1..Len(s) |-> UpperChar(s[i])]
Lower(s) == [i \in 1..Len(s) |-> LowerChar(s[i])]

\* str.split(c)
RECURSIVE Split(_, _)
Split(s, c) ==
    IF \A i \in 1..Len(s) : s[i] # c
    THEN <<s>>
    ELSE LET i == CHOOSE k \in 1..Len(s) : s[k] = c /\ \A j \in 1..(k - 1) : s[j] # c
         IN  <<SubSeq(s, 1, i - 1)>> \o Split(SubSeq(s, i + 1, Len(s)), c)

\* sep.join(values)
RECURSIVE Join(_, _)
Join(values, sep) ==
    IF values = <<>> THEN <<>>
    ELSE IF Len(values) = 1 THEN values[1]
    ELSE values[1] \o sep \o Join(Tail(values), sep)

\* str(n) for n >= 0
RECURSIVE IntToStr(_)
IntToStr(n) ==
    IF n < 10 THEN <<Digits[n + 1]>>
    ELSE IntToStr(n \div 10) \o <<Digits[(n % 10) + 1]>>

(* ------------------------------------------------------------------ *)
(* The file system seen by _static_handler                             *)
(* A file system maps a location (absolute sequence of path segments) *)
(* to a node; the working directory is Cwd.                            *)
(* ------------------------------------------------------------------ *)
Cwd == <<SEG_srv>>
Dir == [kind |-> "dir", data |-> <<>>]
File(d) == [kind |-> "file", data |-> d]

\* Path(static_path) / rel : pathlib drops empty and "." segments and
\* keeps ".." segments
IsRealSegment(s) == s # <<>> /\ s # SEG_dot
PathSegments(p) == SelectSeq(Split(p, "/"), IsRealSegment)
PathJoin(base, rel) == PathSegments(base) \o PathSegments(rel)

\* the operating system's resolution of a relative path from loc: every
\* component but the last must be a directory, ".." is the parent
RECURSIVE Walk(_, _, _)
Walk(files, loc, segs) ==
    IF loc \notin DOMAIN files THEN [found |-> FALSE, loc |-> loc]
    ELSE IF segs = <<>> THEN [found |-> TRUE, loc |-> loc]
    ELSE IF files[loc].kind # "dir" THEN [found |-> FALSE, loc |-> loc]
    ELSE IF Head(segs) = SEG_up
         THEN Walk(files, IF loc = <<>> THEN loc ELSE SubSeq(loc, 1, Len(loc) - 1),
                   Tail(segs))
         ELSE Walk(files, Append(loc, Head(segs)), Tail(segs))

\* the longest name of a directory entry (NAME_MAX)
NameMax == 255

\* os.stat failing with ENAMETOOLONG: the walk comes, in an existing
\* directory, to a component longer than NameMax. Path.exists and
\* Path.is_file answer False for a missing component (ENOENT, ENOTDIR) but
\* let this OSError through.
RECURSIVE NameTooLong(_, _, _)
NameTooLong(files, loc, segs) ==
    IF loc \notin DOMAIN files \/ segs = <<>> THEN FALSE
    ELSE IF files[loc].kind # "dir" THEN FALSE
    ELSE IF Head(segs) = SEG_up
         THEN NameTooLong(files, IF loc = <<>> THEN loc ELSE SubSeq(loc, 1, Len(loc) - 1),
                          Tail(segs))
    ELSE IF Len(Head(segs)) > NameMax THEN TRUE
    ELSE NameTooLong(files, Append(loc, Head(segs)), Tail(segs))
PathStatFails(files, segs) == NameTooLong(files, Cwd, segs)

\* Path.exists, Path.is_file, Path.stat().st_size, Path.read_bytes
PathExists(files, segs) == Walk(files, Cwd, segs).found
PathIsFile(files, segs) ==
    LET w == Walk(files, Cwd, segs) IN w.found /\ files[w.loc].kind = "file"
StatSize(files, segs) == Len(files[Walk(files, Cwd, segs).loc].data)
ReadBytes(files, segs) == files[Walk(files, Cwd, segs).loc].data

\* mimetypes.guess_type(path)[0]: the type of the extension of the last
\* path component (posixpath.splitext: dots leading the component do not
\* start an extension), looked up as written and then in lower case;
\* <<>> stands for None
TypesMap(ext) ==
    CASE ext = EXT_html -> T_text_html
      [] ext = EXT_js -> T_app_js
      [] ext = EXT_png -> T_image_png
      [] ext = EXT_txt -> T_text_plain
      [] ext = EXT_svg -> T_svg
      [] ext = EXT_json -> T_app_json
      [] OTHER -> <<>>

SplitExt(p) ==
    LET parts == Split(p, "/")
        base == parts[Len(parts)]
        dots == {i \in 1..Len(base) : base[i] = "." /\ \E j \in 1..(i - 1) : base[j] # "."}
    IN  IF dots = {} THEN <<>>
        ELSE SubSeq(base, CHOOSE i \in dots : \A k \in dots : k <= i, Len(base))

guess_type(p) ==
    LET ext == SplitExt(p)
    IN  IF TypesMap(ext) # <<>> THEN TypesMap(ext) ELSE TypesMap(Lower(ext))

(* ------------------------------------------------------------------ *)
(* Multi-valued dicts: Dict[str, List[str]] as <<name, values>> items  *)
(* ------------------------------------------------------------------ *)
DictHas(d, name) == \E i \in DOMAIN d : d[i][1] = name

\* if name in d: d[name].append(value) else: d[name] = [value]
DictAppend(d, name, value) ==
    IF DictHas(d, name)
    THEN [i \in DOMAIN d |->
            IF d[i][1] = name THEN <<name, Append(d[i][2], value)>> ELSE d[i]]
    ELSE Append(d, <<name, <<value>>>>)

\* for name, value in pairs: the grouping loop of lines 141-145 and 271-275
RECURSIVE GroupPairs(_, _)
GroupPairs(d, pairs) ==
    IF pairs = <<>> THEN d
    ELSE GroupPairs(DictAppend(d, pairs[1][1], pairs[1][2]), Tail(pairs))

\* for name, values in d.items(): for value in values: one pair each
RECURSIVE FlattenDict(_)
FlattenDict(d) ==
    IF d = <<>> THEN <<>>
    ELSE [i \in 1..Len(d[1][2]) |-> <<d[1][1], d[1][2][i]>>] \o FlattenDict(Tail(d))

(* ------------------------------------------------------------------ *)
(* Handler results: a returned (status, headers, body) or an exception *)
(* ------------------------------------------------------------------ *)
Return(status, headers, body) ==
    [kind |-> "return", exc |-> "", status |-> status, headers |-> headers, body |-> body]
Raise(exc) ==
    [kind |-> "raise", exc |-> exc, status |-> 0, headers |-> <<>>, body |-> None]

\* what the API server does with one connection
Refused == [kind |-> "refused", status |-> 0, headers |-> <<>>, body |-> <<>>]
TimedOut == [kind |-> "timeout", status |-> 0, headers |-> <<>>, body |-> <<>>]
Responds(status, pairs, body) ==
    [kind |-> "response", status |-> status, headers |-> pairs, body |-> body]

(* ------------------------------------------------------------------ *)
(* make_proxy_app                                                      *)
(* ------------------------------------------------------------------ *)

\* urllib.parse.quote_plus: letters, digits and "_.-~" are kept, a space
\* becomes "+", any other character its %XX escape
QuoteChar(c) ==
    CASE c = " " -> <<"+">>
      [] c = "/" -> <<"%", "2", "F">>
      [] c = "=" -> <<"%", "3", "D">>
      [] c = "&" -> <<"%", "2", "6">>
      [] OTHER -> <<c>>

RECURSIVE quote_plus(_)
quote_plus(s) == IF s = <<>> THEN <<>> ELSE QuoteChar(Head(s)) \o quote_plus(Tail(s))

\* urlencode(query, doseq=True)
urlencode(query) ==
    LET pairs == FlattenDict(query)
    IN  Join([i \in 1..Len(pairs) |->
                quote_plus(pairs[i][1]) \o <<"=">> \o quote_plus(pairs[i][2])], <<"&">>)

\* _static_handler taking the Content-Length of a HEAD from its empty body
_static_handler_HeadLenOfBody(files, method, path) ==
    LET m == Upper(method)
        filepath == PathJoin(STATIC_PATH, LStrip(path, "/"))
        accepted_methods == {GET, HEAD}
    IN  IF m \in accepted_methods /\ PathStatFails(files, filepath) THEN Raise("OSError")
        ELSE IF m \in accepted_methods /\ PathExists(files, filepath)
                /\ PathIsFile(files, filepath)
        THEN LET response_body == IF m = HEAD THEN <<>> ELSE ReadBytes(files, filepath)
                 guessed_type == guess_type(path)
                 content_type == IF guessed_type # <<>> THEN guessed_type ELSE T_text_plain
             IN  Return(200,
                        << <<H_ContentLength, <<IntToStr(Len(response_body))>>>>,
                           <<H_ContentType, <<content_type>>>> >>,
                        Some(response_body))
        ELSE IF m \notin accepted_methods
        THEN Return(401,
                    << <<H_ContentLength, <<IntToStr(Len(B_BadRequest))>>>>,
                       <<H_ContentType, <<T_text_plain>>>> >>,
                    Some(B_BadRequest))
        ELSE Return(404,
                    << <<H_ContentLength, <<IntToStr(Len(B_NotFound))>>>>,
                       <<H_ContentType, <<T_text_plain>>>> >>,
                    Some(B_NotFound))

\* _static_handler looking for the file before it looks at the method
_static_handler_NotFoundFirst(files, method, path) ==
    LET m == Upper(method)
        filepath == PathJoin(STATIC_PATH, LStrip(path, "/"))
        accepted_methods == {GET, HEAD}
    IN  IF PathStatFails(files, filepath) THEN Raise("OSError")
        ELSE IF ~(PathExists(files, filepath) /\ PathIsFile(files, filepath))
        THEN Return(404,
                    << <<H_ContentLength, <<IntToStr(Len(B_NotFound))>>>>,
                       <<H_ContentType, <<T_text_plain>>>> >>,
                    Some(B_NotFound))
        ELSE IF m \notin accepted_methods
        THEN Return(401,
                    << <<H_ContentLength, <<IntToStr(Len(B_BadRequest))>>>>,
                       <<H_ContentType, <<T_text_plain>>>> >>,
                    Some(B_BadRequest))
        ELSE LET response_body == IF m = HEAD THEN <<>> ELSE ReadBytes(files, filepath)
                 content_length == IF m = HEAD THEN StatSize(files, filepath)
                                   ELSE Len(response_body)
                 guessed_type == guess_type(path)
                 content_type == IF guessed_type # <<>> THEN guessed_type ELSE T_text_plain
             IN  Return(200,
                        << <<H_ContentLength, <<IntToStr(content_length)>>>>,
                           <<H_ContentType, <<content_type>>>> >>,
                        Some(response_body))

\* _static_handler(method, path) against the files under static_path
_static_handler(files, method, path) ==
    LET m == Upper(method)
        filepath == PathJoin(STATIC_PATH, LStrip(path, "/"))
        accepted_methods == {GET, HEAD}
    IN  IF m \in accepted_methods /\ PathStatFails(files, filepath) THEN Raise("OSError")
        ELSE IF m \in accepted_methods /\ PathExists(files, filepath)
                /\ PathIsFile(files, filepath)
        THEN LET response_body == IF m = HEAD THEN <<>> ELSE ReadBytes(files, filepath)
                 content_length == IF m = HEAD THEN StatSize(files, filepath)
                                   ELSE Len(response_body)
                 guessed_type == guess_type(path)
                 content_type == IF guessed_type # <<>> THEN guessed_type ELSE T_text_plain
             IN  Return(200,
                        << <<H_ContentLength, <<IntToStr(content_length)>>>>,
                           <<H_ContentType, <<content_type>>>> >>,
                        Some(response_body))
        ELSE IF m \notin accepted_methods
        THEN Return(401,
                    << <<H_ContentLength, <<IntToStr(Len(B_BadRequest))>>>>,
                       <<H_ContentType, <<T_text_plain>>>> >>,
                    Some(B_BadRequest))
        ELSE Return(404,
                    << <<H_ContentLength, <<IntToStr(Len(B_NotFound))>>>>,
                       <<H_ContentType, <<T_text_plain>>>> >>,
                    Some(B_NotFound))

\* the request _api_server_handler puts on its connection to the API server
BackendRequest(method, path, query, headers, body, timeout) ==
    [method |-> method,
     url |-> IF Len(query) > 0 THEN path \o <<"?">> \o urlencode(query) ELSE path,
     headers |-> FlattenDict(headers),
     body |-> body,
     timeout |-> timeout]

\* int(s) for a decimal numeral s
IsNumeral(s) == s # <<>> /\ \A i \in DOMAIN s : \E d \in DOMAIN Digits : Digits[d] = s[i]
DigitValue(c) == (CHOOSE d \in DOMAIN Digits : Digits[d] = c) - 1
RECURSIVE StrToInt(_)
StrToInt(s) ==
    IF s = <<>> THEN 0
    ELSE StrToInt(SubSeq(s, 1, Len(s) - 1)) * 10 + DigitValue(s[Len(s)])

\* the length http.client expects of the body: the first Content-Length
\* line (name in any casing) when it is a numeral, -1 when there is none
N_lc_content_length ==
    <<"c", "o", "n", "t", "e", "n", "t", "-", "l", "e", "n", "g", "t", "h">>
IsContentLengthPair(pair) == Lower(pair[1]) = N_lc_content_length
ExpectedLength(pairs) ==
    LET lines == SelectSeq(pairs, IsContentLengthPair)
    IN  IF lines # <<>> /\ IsNumeral(lines[1][2]) THEN StrToInt(lines[1][2]) ELSE -1

\* HTTPResponse.read() returning every byte the server sent, whatever
\* length its head announced
ResponseRead_Everything(method, up) == [ok |-> TRUE, bytes |-> up.body]

\* line 276, HTTPResponse.read(), on a server that sends up.body and closes:
\* nothing after a HEAD request or a 1xx, 204 or 304 status; with an
\* expected length that many bytes, IncompleteRead if fewer were sent;
\* otherwise everything sent
ResponseRead(method, up) ==
    IF method = HEAD \/ up.status \in {204, 304} \/ up.status \in 100..199
    THEN [ok |-> TRUE, bytes |-> <<>>]
    ELSE IF ExpectedLength(up.headers) < 0 THEN [ok |-> TRUE, bytes |-> up.body]
    ELSE IF Len(up.body) < ExpectedLength(up.headers) THEN [ok |-> FALSE, bytes |-> <<>>]
    ELSE [ok |-> TRUE, bytes |-> SubSeq(up.body, 1, ExpectedLength(up.headers))]

\* _api_server_handler, given what the API server does with the connection.
\* Returns the handler's result and the requests that reached the server.
\* HTTPConnection with a negative timeout raises ValueError and with a zero
\* timeout BlockingIOError, both before anything is sent.
_api_server_handler(method, path, query, headers, body, timeout, up) ==
    LET sends == <<BackendRequest(method, path, query, headers, body, timeout)>>
    IN  IF timeout < 0 THEN [result |-> Raise("ValueError"), sent |-> <<>>]
        ELSE IF timeout = 0 THEN [result |-> Raise("BlockingIOError"), sent |-> <<>>]
        ELSE IF up.kind = "refused"
        THEN [result |-> Raise("ConnectionRefusedError"), sent |-> <<>>]
        ELSE IF up.kind = "timeout"
        THEN [result |-> Raise("timeout"), sent |-> sends]
        ELSE IF ~ResponseRead(method, up).ok
        THEN [result |-> Raise("IncompleteRead"), sent |-> sends]
        ELSE [result |-> Return(up.status, GroupPairs(<<>>, up.headers),
                                Some(ResponseRead(method, up).bytes)),
              sent |-> sends]

StaticCall(method, path) == [fn |-> "_static_handler", method |-> method, path |-> path]
ApiCall(method, path, query, headers, body, timeout) ==
    [fn |-> "_api_server_handler", method |-> method, path |-> path, query |-> query,
     headers |-> headers, body |-> body, timeout |-> timeout]

\* _root_handler forwarding an /api/ request without its body
_root_handler_NoBody(files, method, path, query, headers, body, timeout, up) ==
    IF path = P_root
    THEN [result |-> _static_handler(files, method, INDEX_HTML),
          calls |-> <<StaticCall(method, INDEX_HTML)>>,
          sent |-> <<>>]
    ELSE IF StartsWith(path, PFX_api)
    THEN LET r == _api_server_handler(method, path, query, headers, None, timeout, up)
         IN  [result |-> r.result,
              calls |-> <<ApiCall(method, path, query, headers, None, timeout)>>,
              sent |-> r.sent]
    ELSE [result |-> _static_handler(files, method, path),
          calls |-> <<StaticCall(method, path)>>,
          sent |-> <<>>]

\* _root_handler without the rule that maps "/" to "/index.html"
_root_handler_NoIndexRule(files, method, path, query, headers, body, timeout, up) ==
    IF StartsWith(path, PFX_api)
    THEN LET r == _api_server_handler(method, path, query, headers, body, timeout, up)
         IN  [result |-> r.result,
              calls |-> <<ApiCall(method, path, query, headers, body, timeout)>>,
              sent |-> r.sent]
    ELSE [result |-> _static_handler(files, method, path),
          calls |-> <<StaticCall(method, path)>>,
          sent |-> <<>>]

\* _root_handler testing the prefix "/api" instead of "/api/"
_root_handler_BarePrefix(files, method, path, query, headers, body, timeout, up) ==
    IF path = P_root
    THEN [result |-> _static_handler(files, method, INDEX_HTML),
          calls |-> <<StaticCall(method, INDEX_HTML)>>,
          sent |-> <<>>]
    ELSE IF StartsWith(path, P_api_bare)
    THEN LET r == _api_server_handler(method, path, query, headers, body, timeout, up)
         IN  [result |-> r.result,
              calls |-> <<ApiCall(method, path, query, headers, body, timeout)>>,
              sent |-> r.sent]
    ELSE [result |-> _static_handler(files, method, path),
          calls |-> <<StaticCall(method, path)>>,
          sent |-> <<>>]

\* _root_handler: the result, the handler calls it makes and the requests
\* that reached the API server
_root_handler(files, method, path, query, headers, body, timeout, up) ==
    IF path = P_root
    THEN [result |-> _static_handler(files, method, INDEX_HTML),
          calls |-> <<StaticCall(method, INDEX_HTML)>>,
          sent |-> <<>>]
    ELSE IF StartsWith(path, PFX_api)
    THEN LET r == _api_server_handler(method, path, query, headers, body, timeout, up)
         IN  [result |-> r.result,
              calls |-> <<ApiCall(method, path, query, headers, body, timeout)>>,
              sent |-> r.sent]
    ELSE [result |-> _static_handler(files, method, path),
          calls |-> <<StaticCall(method, path)>>,
          sent |-> <<>>]

(* ------------------------------------------------------------------ *)
(* Gateway mode: lambda_handler                                        *)
(* ------------------------------------------------------------------ *)
V_2_0 == <<"2", ".", "0">>
V_1_0 == <<"1", ".", "0">>
V_identity == <<"i", "d", "e", "n", "t", "i", "t", "y">>
V_Identity_uc == <<"I", "d", "e", "n", "t", "i", "t", "y">>
V_gzip == <<"g", "z", "i", "p">>
T_text_pfx == <<"t", "e", "x", "t", "/">>
T_json_utf8 == <<"a", "p", "p", "l", "i", "c", "a", "t", "i", "o", "n", "/", "j", "s", "o", "n", ";", "u", "8">>
T_json_uc == <<"A", "p", "p", "l", "i", "c", "a", "t", "i", "o", "n", "/", "j", "s", "o", "n">>
T_app_xml == <<"a", "p", "p", "l", "i", "c", "a", "t", "i", "o", "n", "/", "x", "m", "l">>
N_lc_content_type == <<"c", "o", "n", "t", "e", "n", "t", "-", "t", "y", "p", "e">>
N_lc_content_encoding == <<"c", "o", "n", "t", "e", "n", "t", "-", "e", "n", "c", "o", "d", "i", "n", "g">>
N_lc_set_cookie == <<"s", "e", "t", "-", "c", "o", "o", "k", "i", "e">>
H_ContentEncoding == <<"C", "o", "n", "t", "e", "n", "t", "-", "E", "n", "c", "o", "d", "i", "n", "g">>
H_content_encoding_lc == <<"c", "o", "n", "t", "e", "n", "t", "-", "e", "n", "c", "o", "d", "i", "n", "g">>
H_CONTENT_TYPE_uc == <<"C", "O", "N", "T", "E", "N", "T", "-", "T", "Y", "P", "E">>
H_set_cookie_lc == <<"s", "e", "t", "-", "c", "o", "o", "k", "i", "e">>
H_cookie_lc == <<"c", "o", "o", "k", "i", "e">>
V_c3 == <<"c", "=", "3">>
V_w == <<"w">>

\* the safety margin subtracted from the host's remaining time, in milliseconds
TimeoutBufferMs == 1000

\* base64: the alphabet as ASCII codes, "=" is 61
B64Alphabet ==
    <<65, 66, 67, 68, 69, 70, 71, 72, 73, 74, 75, 76, 77, 78, 79, 80, 81, 82, 83, 84, 85,
      86, 87, 88, 89, 90, 97, 98, 99, 100, 101, 102, 103, 104, 105, 106, 107, 108, 109,
      110, 111, 112, 113, 114, 115, 116, 117, 118, 119, 120, 121, 122, 48, 49, 50, 51, 52,
      53, 54, 55, 56, 57, 43, 47>>
B64Pad == 61
B64Char(v) == B64Alphabet[v + 1]
B64Value(c) == (CHOOSE i \in 1..Len(B64Alphabet) : B64Alphabet[i] = c) - 1

\* base64.standard_b64encode
RECURSIVE standard_b64encode(_)
standard_b64encode(b) ==
    IF b = <<>> THEN <<>>
    ELSE IF Len(b) = 1
    THEN <<B64Char(b[1] \div 4), B64Char((b[1] % 4) * 16), B64Pad, B64Pad>>
    ELSE IF Len(b) = 2
    THEN <<B64Char(b[1] \div 4), B64Char((b[1] % 4) * 16 + b[2] \div 16),
           B64Char((b[2] % 16) * 4), B64Pad>>
    ELSE <<B64Char(b[1] \div 4), B64Char((b[1] % 4) * 16 + b[2] \div 16),
           B64Char((b[2] % 16) * 4 + b[3] \div 64), B64Char(b[3] % 64)>>
         \o standard_b64encode(SubSeq(b, 4, Len(b)))

\* base64.standard_b64decode of text over the alphabet: whether it is
\* correctly padded, and the bytes it decodes to
B64Padded(s) == Len(s) % 4 = 0
RECURSIVE standard_b64decode(_)
standard_b64decode(s) ==
    IF s = <<>> THEN <<>>
    ELSE LET b1 == B64Value(s[1]) * 4 + B64Value(s[2]) \div 16
         IN  IF s[3] = B64Pad THEN <<b1>>
             ELSE LET b2 == (B64Value(s[2]) % 16) * 16 + B64Value(s[3]) \div 4
                  IN  IF s[4] = B64Pad THEN <<b1, b2>>
                      ELSE <<b1, b2, (B64Value(s[3]) % 4) * 64 + B64Value(s[4])>>
                           \o standard_b64decode(SubSeq(s, 5, Len(s)))

\* urllib.parse.unquote_plus on the escapes quote_plus produces here
RECURSIVE unquote_plus(_)
unquote_plus(s) ==
    IF s = <<>> THEN <<>>
    ELSE IF Head(s) = "+" THEN <<" ">> \o unquote_plus(Tail(s))
    ELSE IF Len(s) >= 3 /\ SubSeq(s, 1, 3) = <<"%", "2", "F">>
    THEN <<"/">> \o unquote_plus(SubSeq(s, 4, Len(s)))
    ELSE IF Len(s) >= 3 /\ SubSeq(s, 1, 3) = <<"%", "3", "D">>
    THEN <<"=">> \o unquote_plus(SubSeq(s, 4, Len(s)))
    ELSE IF Len(s) >= 3 /\ SubSeq(s, 1, 3) = <<"%", "2", "6">>
    THEN <<"&">> \o unquote_plus(SubSeq(s, 4, Len(s)))
    ELSE <<Head(s)>> \o unquote_plus(Tail(s))

\* urllib.parse.parse_qs: name=value pieces between "&", pieces without
\* "=" and pieces with an empty value are dropped
RECURSIVE ParsePieces(_, _)
ParsePieces(d, pieces) ==
    IF pieces = <<>> THEN d
    ELSE LET nv == Split(Head(pieces), "=")
             value == Join(Tail(nv), <<"=">>)
         IN  IF Len(nv) >= 2 /\ value # <<>>
             THEN ParsePieces(DictAppend(d, unquote_plus(nv[1]), unquote_plus(value)),
                              Tail(pieces))
             ELSE ParsePieces(d, Tail(pieces))
parse_qs(qs) == ParsePieces(<<>>, Split(qs, "&"))

\* line 81: {name: values.split(",") for name, values in event["headers"].items()}
SplitHeaders(h) == [i \in 1..Len(h) |-> <<h[i][1], Split(h[i][2], ",")>>]

\* lines 82-86: each cookie is appended to headers["Cookie"]
RECURSIVE AddCookies(_, _)
AddCookies(headers, cookies) ==
    IF cookies = <<>> THEN headers
    ELSE AddCookies(DictAppend(headers, H_Cookie, Head(cookies)), Tail(cookies))

\* _is_text_content_type without its image/svg+xml branch
_is_text_content_type_NoSvg(content_type) ==
    IF StartsWith(content_type, T_text_pfx) THEN TRUE
    ELSE IF StartsWith(content_type, T_app_js) THEN TRUE
    ELSE IF StartsWith(content_type, T_app_json) THEN TRUE
    ELSE FALSE

\* _is_text_content_type
_is_text_content_type(content_type) ==
    IF StartsWith(content_type, T_text_pfx) THEN TRUE
    ELSE IF StartsWith(content_type, T_app_js) THEN TRUE
    ELSE IF StartsWith(content_type, T_app_json) THEN TRUE
    ELSE IF StartsWith(content_type, T_svg) THEN TRUE
    ELSE FALSE

\* the loop of _is_binary_content: the first value of each matching header
\* replaces what was found before
RECURSIVE ScanHeaders(_, _, _)
ScanHeaders(items, content_type, content_encoding) ==
    IF items = <<>>
    THEN [content_type |-> content_type, content_encoding |-> content_encoding]
    ELSE LET name == items[1][1]
             values == items[1][2]
         IN  ScanHeaders(Tail(items),
                         IF Lower(name) = N_lc_content_type THEN values[1] ELSE content_type,
                         IF Lower(name) = N_lc_content_encoding THEN values[1]
                         ELSE content_encoding)

\* _is_binary_content
_is_binary_content(headers) ==
    LET found == ScanHeaders(headers, T_text_plain, V_identity)
    IN  IF found.content_encoding # V_identity THEN TRUE
        ELSE IF _is_text_content_type(found.content_type) THEN FALSE
        ELSE TRUE

\* lines 113-117: the reply's headers
IsNotSetCookie(item) == Lower(item[1]) # N_lc_set_cookie

\* the reply's headers with the name compared as written: name != "Set-Cookie"
IsNotSetCookieAsWritten(item) == item[1] # H_SetCookie
ReplyHeaders_CaseSensitive(response_headers) ==
    LET kept == SelectSeq(response_headers, IsNotSetCookieAsWritten)
    IN  [i \in 1..Len(kept) |-> <<kept[i][1], Join(kept[i][2], <<",">>)>>]

ReplyHeaders(response_headers) ==
    LET kept == SelectSeq(response_headers, IsNotSetCookie)
    IN  [i \in 1..Len(kept) |-> <<kept[i][1], Join(kept[i][2], <<",">>)>>]

\* lines 118-123: the reply's cookies
RECURSIVE ReplyCookies(_)
ReplyCookies(response_headers) ==
    IF response_headers = <<>> THEN <<>>
    ELSE (IF Lower(response_headers[1][1]) = N_lc_set_cookie
          THEN response_headers[1][2] ELSE <<>>)
         \o ReplyCookies(Tail(response_headers))

\* lines 105-126: the reply for the router's response
EncodeReply(status, response_headers, response_body) ==
    [kind |-> "return", exc |-> "",
     statusCode |-> status,
     headers |-> ReplyHeaders(response_headers),
     cookies |-> ReplyCookies(response_headers),
     isBase64Encoded |-> _is_binary_content(response_headers),
     body |-> IF _is_binary_content(response_headers)
              THEN standard_b64encode(response_body.bytes)
              ELSE response_body.bytes]

ReplyRaise(exc) ==
    [kind |-> "raise", exc |-> exc, statusCode |-> 0, headers |-> <<>>, cookies |-> <<>>,
     isBase64Encoded |-> FALSE, body |-> <<>>]

\* an API Gateway 2.0 event; missing holds the keys the event lacks
Event(version, method, path, qs, headers, cookies, body, b64, missing) ==
    [version |-> version, method |-> method, path |-> path, rawQueryString |-> qs,
     headers |-> headers, cookies |-> cookies, body |-> body, isBase64Encoded |-> b64,
     missing |-> missing]
NoEvent == Event(<<>>, <<>>, <<>>, <<>>, <<>>, <<>>, <<>>, FALSE, {})

\* lines 76-93: the InternalRequest of an event; a str body is held as its bytes
EventRequest(event, remaining_ms) ==
    [method |-> event.method,
     path |-> event.path,
     query |-> parse_qs(event.rawQueryString),
     headers |-> AddCookies(SplitHeaders(event.headers),
                            IF "cookies" \in event.missing THEN <<>> ELSE event.cookies),
     body |-> LET text == IF "body" \in event.missing THEN <<>> ELSE event.body
              IN  Some(IF event.isBase64Encoded THEN standard_b64decode(text) ELSE text),
     timeout |-> remaining_ms - TimeoutBufferMs]

\* lines 76-89 without the assert on the version
EventError_NoAssert(event) ==
    IF {"version", "requestContext", "rawQueryString", "headers", "isBase64Encoded"}
            \cap event.missing # {}
    THEN "KeyError"
    ELSE IF event.isBase64Encoded /\ "body" \notin event.missing /\ ~B64Padded(event.body)
    THEN "binascii.Error"
    ELSE ""

\* the exception lines 76-89 raise for an event, "" if none
EventError(event) ==
    IF "version" \in event.missing THEN "KeyError"
    ELSE IF event.version # V_2_0 THEN "AssertionError"
    ELSE IF {"requestContext", "rawQueryString", "headers", "isBase64Encoded"}
            \cap event.missing # {}
    THEN "KeyError"
    ELSE IF event.isBase64Encoded /\ "body" \notin event.missing /\ ~B64Padded(event.body)
    THEN "binascii.Error"
    ELSE ""

\* before any request, and before the router has answered
NoRequest ==
    [method |-> <<>>, path |-> <<>>, query |-> <<>>, headers |-> <<>>, body |-> None,
     timeout |-> 0]
NoResult == Raise("")
NotRouted == [result |-> NoResult, calls |-> <<>>, sent |-> <<>>]

\* lambda_handler(event, context): the reply or the exception, with the
\* request it handed to the router and what the router did
lambda_handler(fs, event, remaining_ms, up) ==
    IF EventError(event) # ""
    THEN [reply |-> ReplyRaise(EventError(event)), request |-> NoRequest, routed |-> NotRouted]
    ELSE LET req == EventRequest(event, remaining_ms)
             r == _root_handler(fs, req.method, req.path, req.query, req.headers, req.body,
                                req.timeout, up)
         IN  [reply |-> IF r.result.kind = "raise" THEN ReplyRaise(r.result.exc)
                        ELSE EncodeReply(r.result.status, r.result.headers, r.result.body),
              request |-> req,
              routed |-> r]

(* ------------------------------------------------------------------ *)
(* State                                                               *)
(* ------------------------------------------------------------------ *)
VARIABLES
    files,          \* the file system
    request,        \* the InternalRequest last handed to the router
    upstream,       \* what the API server does with that request's connection
    result,         \* the router's result for it
    calls,          \* the handler calls the router made for it
    sent,           \* the requests that reached the API server for it
    mode,           \* "standalone" (python proxy.py) or "gateway" (imported by the host)
    pc,             \* where the proxy process is in its code
    start_timeout,  \* API_START_TIMEOUT, in seconds
    now,            \* time.monotonic() since the module was loaded, in ticks
    end_time,       \* start_api_server_process: end_time
    attempts,       \* start_api_server_process: connect_ex calls made
    lastProbe,      \* result of the last connect_ex: "none", "connected", "refused"
    proc,           \* the API server process: "none", "running", "exited"
    sigterms,       \* SIGTERMs sent to it by Popen.terminate()
    portOpen,       \* whether it accepts connections on its port
    spawned,        \* subprocess.Popen calls made
    api_process,    \* one_time_init.api_process: "unset" or "handle"
    proxy_app,      \* one_time_init.proxy_app: "unset" or "app"
    hdrbuf,         \* BaseHTTPRequestHandler._headers_buffer of the connection
    wire,           \* what has been written to the connection's socket
    raised,         \* whether handling the current request raised
    log,            \* per finished request: whether it raised, the status lines written
    event,          \* gateway mode: the event of the invocation
    remaining,      \* context.get_remaining_time_in_millis() of the invocation
    reply,          \* what lambda_handler returned or raised
    elapsed,        \* milliseconds since the invocation read its remaining time
    waited          \* milliseconds the current socket operation has blocked

routerVars == <<files, request, upstream, result, calls, sent>>
startVars == <<start_timeout, now, end_time, attempts, lastProbe, proc, sigterms, portOpen,
               spawned, api_process, proxy_app>>
connVars == <<hdrbuf, wire, raised, log>>
gwVars == <<event, remaining, reply, elapsed, waited>>
vars == <<files, request, upstream, result, calls, sent, mode, pc, start_timeout, now,
          end_time, attempts, lastProbe, proc, sigterms, portOpen, spawned, api_process,
          proxy_app, hdrbuf, wire, raised, log, event, remaining, reply, elapsed, waited>>

(* ------------------------------------------------------------------ *)
(* Inputs                                                              *)
(* ------------------------------------------------------------------ *)
\* bounds of the modelled inputs
MaxFileLen == 12
MaxBodyLen == 2

FileData(n) == [i \in 1..n |-> 96 + i]

BaseFiles ==
    (<<>> :> Dir) @@ (Cwd :> Dir) @@ (<<SEG_srv, SEG_app>> :> Dir)
    @@ (<<SEG_srv, SEG_app, SEG_stxt>> :> File(<<83>>))
    @@ (<<SEG_srv, SEG_app, SEG_build>> :> Dir)
    @@ (<<SEG_srv, SEG_app, SEG_build, SEG_img>> :> Dir)
    @@ (<<SEG_srv, SEG_app, SEG_build, SEG_img, SEG_bpng>> :> File(<<137, 80>>))

\* the static root with and without index.html, a.js of several sizes
FsChoices ==
    {BaseFiles @@ (<<SEG_srv, SEG_app, SEG_build, SEG_ajs>> :> File(FileData(n)))
        : n \in {0, 1, MaxFileLen}}
    \cup
    {BaseFiles @@ (<<SEG_srv, SEG_app, SEG_build, SEG_index>> :> File(<<60, 104, 62>>))
               @@ (<<SEG_srv, SEG_app, SEG_build, SEG_ajs>> :> File(FileData(n)))
        : n \in {0, 1, MaxFileLen}}

Methods == {GET, HEAD, POST, get_lc, <<"p", "u", "t">>}
Paths == {P_root, P_index, P_api_slash, P_api_date, P_api_bare, P_js, P_missing, P_dir,
          P_png, P_up, P_apix, P_dots, P_JS_uc, P_long(NameMax), P_long(NameMax + 1)}
Queries == {<<>>, << <<<<"k">>, <<<<"a", " ", "b">>, <<"c">>>>>> >>}
RequestHeaders == {<<>>, << <<H_Cookie, <<V_a1, V_b2>>>>, <<H_XA, <<V_v>>>> >>}
Bodies == {None} \cup {Some([i \in 1..n |-> 255]) : n \in {MaxBodyLen}}
Timeouts == {StandaloneTimeoutMs}

Upstreams ==
    {Refused, TimedOut,
     Responds(200, << <<H_ContentType, T_app_json>>, <<H_SetCookie, V_a1>>,
                      <<H_SetCookie, V_b2>> >>, <<123, 125>>),
     Responds(500, <<>>, <<>>),
     Responds(200, << <<H_ContentLength, <<"2">>>> >>, <<123, 125>>),
     Responds(200, << <<N_lc_content_length, <<"2">>>> >>, <<123, 125, 10>>),
     Responds(200, << <<H_ContentLength, <<"3">>>> >>, <<123, 125>>),
     Responds(200, << <<H_ContentLength, <<"x">>>> >>, <<123, 125>>),
     Responds(304, << <<H_ContentLength, <<"2">>>> >>, <<>>)}

Requests ==
    [method : Methods, path : Paths, query : Queries, headers : RequestHeaders,
     body : Bodies, timeout : Timeouts]

(* ------------------------------------------------------------------ *)
(* The router alone: _root_handler applied to a drawn request          *)
(* ------------------------------------------------------------------ *)
\* the part of the state a specification does not use
NoProcess ==
    /\ start_timeout = 0 /\ now = 0 /\ end_time = 0 /\ attempts = 0
    /\ lastProbe = "none" /\ proc = "none" /\ sigterms = 0 /\ portOpen = FALSE
    /\ spawned = 0 /\ api_process = "unset" /\ proxy_app = "unset"
NoConnection == hdrbuf = <<>> /\ wire = <<>> /\ raised = FALSE /\ log = <<>>
NoInvocation ==
    /\ event = NoEvent /\ remaining = 0 /\ reply = ReplyRaise("")
    /\ elapsed = 0 /\ waited = 0

RouterInit ==
    /\ files \in FsChoices
    /\ request \in Requests
    /\ upstream \in Upstreams
    /\ result = NoResult
    /\ calls = <<>>
    /\ sent = <<>>
    /\ mode = "router" /\ pc = "route"
    /\ NoProcess /\ NoConnection /\ NoInvocation

\* one_time_init.proxy_app(method=..., timeout=...) on the drawn request
Route ==
    /\ mode = "router" /\ calls = <<>>
    /\ \E r \in {_root_handler(files, request.method, request.path, request.query,
                                request.headers, request.body, request.timeout, upstream)} :
           /\ result' = r.result
           /\ calls' = r.calls
           /\ sent' = r.sent
    /\ UNCHANGED gwVars
    /\ UNCHANGED <<files, request, upstream, mode, pc, startVars, connVars>>

RouterNext == Route
SpecRouter == RouterInit /\ [][RouterNext]_vars

Routed == calls # <<>>
IsApiPath(p) == StartsWith(p, PFX_api)
(* ------------------------------------------------------------------ *)
(* Properties of the router                                            *)
(* ------------------------------------------------------------------ *)

\* C1: a request whose path starts with /api/ makes the router call the
\* backend proxy client exactly once, with the request's method, path,
\* query, headers and body unchanged and the caller's timeout, and makes
\* it call nothing else; what reaches the API server carries that method,
\* body and timeout.
C1_ApiForwardedUnchanged ==
    (Routed /\ IsApiPath(request.path)) =>
        /\ calls = <<ApiCall(request.method, request.path, request.query,
                             request.headers, request.body, request.timeout)>>
        /\ Len(sent) <= 1
        /\ \A i \in DOMAIN sent :
              /\ sent[i].method = request.method
              /\ sent[i].body = request.body
              /\ sent[i].headers = FlattenDict(request.headers)
              /\ sent[i].timeout = request.timeout

C1_Witness ==
    /\ Routed /\ IsApiPath(request.path)
    /\ request.body # None /\ request.query # <<>> /\ request.headers # <<>>
    /\ result.kind = "return" /\ Len(sent) = 1

\* C2: routing "/" gives the result of routing "/index.html" with the same
\* method, query, headers and body, and nothing reaches the API server.
C2_RootIsIndex ==
    (Routed /\ request.path = P_root) =>
        /\ result = _root_handler(files, request.method, P_index, request.query,
                                  request.headers, request.body, request.timeout,
                                  upstream).result
        /\ sent = <<>>
        /\ \A i \in DOMAIN calls : calls[i].fn # "_api_server_handler"

C2_Witness == Routed /\ request.path = P_root /\ result.status = 200

\* C3: a path that neither starts with /api/ nor equals "/" gets exactly
\* the static file resolver's response for that method and that path, by
\* one call of the resolver, and nothing reaches the API server.
C3_OtherPathsAreStatic ==
    (Routed /\ ~IsApiPath(request.path) /\ request.path # P_root) =>
        /\ result = _static_handler(files, request.method, request.path)
        /\ calls = <<StaticCall(request.method, request.path)>>
        /\ sent = <<>>

C3_Witness == Routed /\ request.path = P_api_bare /\ result.status = 404

(* ------------------------------------------------------------------ *)
(* The proxy process: module load, one_time_init, then serving         *)
(* ------------------------------------------------------------------ *)
\* bounds of the modelled runs
MaxStartTimeout == 1
MaxSleepTicks == 2
MaxRequests == 2

\* a tick is the polling interval time.sleep(0.01); start_timeout is in seconds
TicksPerSecond == 100

ServedFiles ==
    BaseFiles @@ (<<SEG_srv, SEG_app, SEG_build, SEG_index>> :> File(<<60, 104, 62>>))
              @@ (<<SEG_srv, SEG_app, SEG_build, SEG_ajs>> :> File(FileData(1)))

Req(m, p, b) ==
    [method |-> m, path |-> p, query |-> <<>>, headers |-> <<>>, body |-> b,
     timeout |-> StandaloneTimeoutMs]
ServedRequests ==
    {Req(GET, P_root, None), Req(HEAD, P_js, None), Req(POST, P_missing, Some(<<255>>)),
     Req(GET, P_api_date, None)}
ServedUpstreams == {Refused, TimedOut, Responds(200, <<<<H_ContentType, T_app_json>>>>, <<123, 125>>)}

Init ==
    /\ mode \in {"standalone", "gateway"}
    /\ pc = "load"
    /\ start_timeout \in 0..MaxStartTimeout
    /\ now = 0 /\ end_time = 0 /\ attempts = 0 /\ lastProbe = "none"
    /\ proc = "none" /\ sigterms = 0 /\ portOpen = FALSE /\ spawned = 0
    /\ api_process = "unset" /\ proxy_app = "unset"
    /\ files = ServedFiles
    /\ request = NoRequest /\ upstream = Refused /\ result = NoResult
    /\ calls = <<>> /\ sent = <<>>
    /\ NoConnection /\ NoInvocation

(* ---- start_api_server_process, called by one_time_init at module load ---- *)

\* lines 196-203: spawn the API server, compute the deadline
Popen ==
    /\ pc = "load"
    /\ proc' = "running"
    /\ spawned' = spawned + 1
    /\ end_time' = now + start_timeout * TicksPerSecond
    /\ pc' = "sleep"
    /\ UNCHANGED gwVars
    /\ UNCHANGED <<routerVars, connVars, mode, start_timeout, now, attempts, lastProbe,
                   sigterms, portOpen, api_process, proxy_app>>

\* line 205: time.sleep(0.01) takes at least one tick
Sleep ==
    /\ pc = "sleep"
    /\ \E d \in 1..MaxSleepTicks : now' = now + d
    /\ pc' = "connect"
    /\ UNCHANGED gwVars
    /\ UNCHANGED <<routerVars, connVars, mode, start_timeout, end_time, attempts, lastProbe,
                   proc, sigterms, portOpen, spawned, api_process, proxy_app>>

\* the loop left when connect_ex fails instead of when it succeeds
ConnectEx_Inverted ==
    /\ pc = "connect"
    /\ attempts' = attempts + 1
    /\ lastProbe' = IF portOpen THEN "connected" ELSE "refused"
    /\ pc' = IF portOpen THEN "deadline" ELSE "started"
    /\ UNCHANGED gwVars
    /\ UNCHANGED <<routerVars, connVars, mode, start_timeout, now, end_time, proc, sigterms,
                   portOpen, spawned, api_process, proxy_app>>

\* a successful connect_ex counted only before the deadline
ConnectEx_DeadlineFirst ==
    /\ pc = "connect"
    /\ attempts' = attempts + 1
    /\ lastProbe' = IF portOpen THEN "connected" ELSE "refused"
    /\ pc' = IF portOpen /\ now < end_time THEN "started" ELSE "deadline"
    /\ UNCHANGED gwVars
    /\ UNCHANGED <<routerVars, connVars, mode, start_timeout, now, end_time, proc, sigterms,
                   portOpen, spawned, api_process, proxy_app>>

\* lines 206-209: connect_ex; 0 leaves the loop
ConnectEx ==
    /\ pc = "connect"
    /\ attempts' = attempts + 1
    /\ lastProbe' = IF portOpen THEN "connected" ELSE "refused"
    /\ pc' = IF portOpen THEN "started" ELSE "deadline"
    /\ UNCHANGED gwVars
    /\ UNCHANGED <<routerVars, connVars, mode, start_timeout, now, end_time, proc, sigterms,
                   portOpen, spawned, api_process, proxy_app>>

\* line 210: if time.monotonic() >= end_time
CheckDeadline ==
    /\ pc = "deadline"
    /\ pc' = IF now >= end_time THEN "terminate" ELSE "sleep"
    /\ UNCHANGED gwVars
    /\ UNCHANGED <<routerVars, connVars, mode, startVars>>

\* line 211: process.terminate() sends SIGTERM and returns
Terminate ==
    /\ pc = "terminate"
    /\ sigterms' = sigterms + 1
    /\ pc' = "raise"
    /\ UNCHANGED gwVars
    /\ UNCHANGED <<routerVars, connVars, mode, start_timeout, now, end_time, attempts,
                   lastProbe, proc, portOpen, spawned, api_process, proxy_app>>

\* line 212: RuntimeError leaves start_api_server_process, one_time_init and
\* the module: nothing catches it
RaiseStartup ==
    /\ pc = "raise"
    /\ pc' = "init_failed"
    /\ now' = 0 /\ end_time' = 0 /\ attempts' = 0
    /\ UNCHANGED gwVars
    /\ UNCHANGED <<routerVars, connVars, mode, start_timeout, lastProbe, proc, sigterms,
                   portOpen, spawned, api_process, proxy_app>>

\* lines 213-214, 59, 66-70 and 356-359: the handle is returned and stored,
\* the router is built; python proxy.py goes on to main() and serve_forever,
\* an importing host to its first invocation
ReturnProcess ==
    /\ pc = "started"
    /\ api_process' = "handle"
    /\ proxy_app' = "app"
    /\ pc' = IF mode = "standalone" THEN "serving" ELSE "idle"
    /\ now' = 0 /\ end_time' = 0 /\ attempts' = 0
    /\ UNCHANGED gwVars
    /\ UNCHANGED <<routerVars, connVars, mode, start_timeout, lastProbe, proc, sigterms,
                   portOpen, spawned>>

(* ---- the API server process, as the operating system runs it ---- *)

\* the command starts listening on PORT
BackendListens ==
    /\ proc = "running" /\ ~portOpen
    /\ pc \in {"sleep", "connect", "deadline"}
    /\ portOpen' = TRUE
    /\ UNCHANGED gwVars
    /\ UNCHANGED <<routerVars, connVars, mode, pc, start_timeout, now, end_time, attempts,
                   lastProbe, proc, sigterms, spawned, api_process, proxy_app>>

\* a process that was sent SIGTERM exits at some later time
ProcessDies ==
    /\ proc = "running" /\ sigterms > 0
    /\ proc' = "exited"
    /\ portOpen' = FALSE
    /\ UNCHANGED gwVars
    /\ UNCHANGED <<routerVars, connVars, mode, pc, start_timeout, now, end_time, attempts,
                   lastProbe, sigterms, spawned, api_process, proxy_app>>

StartNext ==
    \/ Popen \/ Sleep \/ ConnectEx \/ CheckDeadline \/ Terminate \/ RaiseStartup
    \/ ReturnProcess \/ BackendListens \/ ProcessDies

(* ---- standalone mode: main.RequestHandler.do_request ---- *)

\* what BaseHTTPRequestHandler puts in its header buffer and on the socket
StatusLine(code) == <<"status", code>>
HeaderLine(name, value) == <<"header", name, value>>
EndOfHeaders == <<"end">>
BodyBytes(b) == <<"body", b>>

\* send_response(code): the status line and the Server and Date headers
send_response(code) ==
    <<StatusLine(code), HeaderLine("Server", "BaseHTTP"), HeaderLine("Date", "now")>>

\* for name, values in response_headers.items(): for value in values: send_header
SendHeaders(headers) ==
    LET pairs == FlattenDict(headers)
    IN  [i \in 1..Len(pairs) |-> HeaderLine(pairs[i][1], pairs[i][2])]

\* send_error(500, ...): the head of the error response, buffered
SendErrorHead ==
    send_response(500)
    \o <<HeaderLine("Connection", "close"), HeaderLine("Content-Type", "text/html"),
         HeaderLine("Content-Length", "error page")>>

\* the page send_error writes as the body of its response
ErrorPage == <<60, 104, 116, 109, 108, 62>>

IsStatusLine(item) == item[1] = "status"
\* the codes of the status lines written to the connection, in order
StatusCodes(w) ==
    LET lines == SelectSeq(w, IsStatusLine) IN [i \in 1..Len(lines) |-> lines[i][2]]

LogEntry(r, w) == [raised |-> r, statuses |-> StatusCodes(w)]

\* serve_forever accepts a connection and do_request parses the request
\* (lines 137-151); int() of a Content-Length that is no number raises
Accept ==
    /\ mode = "standalone" /\ pc = "serving"
    /\ Len(log) < MaxRequests
    /\ \E req \in ServedRequests, up \in ServedUpstreams, badLength \in BOOLEAN :
          /\ request' = req
          /\ upstream' = up
          /\ raised' = badLength
          /\ pc' = IF badLength THEN "send_error" ELSE "route"
    /\ result' = NoResult /\ calls' = <<>> /\ sent' = <<>>
    /\ hdrbuf' = <<>> /\ wire' = <<>>
    /\ UNCHANGED gwVars
    /\ UNCHANGED <<files, mode, startVars, log>>

\* lines 154-161: one_time_init.proxy_app(...)
RouteRequest ==
    /\ pc = "route"
    /\ \E r \in {_root_handler(files, request.method, request.path, request.query,
                                request.headers, request.body, request.timeout, upstream)} :
           /\ result' = r.result
           /\ calls' = r.calls
           /\ sent' = r.sent
           /\ raised' = (r.result.kind = "raise")
           /\ pc' = IF r.result.kind = "raise" THEN "send_error" ELSE "send_response"
    /\ UNCHANGED gwVars
    /\ UNCHANGED <<files, request, upstream, mode, startVars, hdrbuf, wire, log>>

\* lines 164-167: status line and headers go to the header buffer
SendResponse ==
    /\ pc = "send_response"
    /\ hdrbuf' = hdrbuf \o send_response(result.status) \o SendHeaders(result.headers)
    /\ pc' = "end_headers"
    /\ UNCHANGED gwVars
    /\ UNCHANGED <<routerVars, mode, startVars, wire, raised, log>>

\* line 168: end_headers appends the blank line and writes the buffer; a
\* write that raises leaves the buffer as it is
EndHeaders ==
    /\ pc = "end_headers"
    /\ \E ok \in BOOLEAN :
          IF ok
          THEN /\ wire' = wire \o hdrbuf \o <<EndOfHeaders>>
               /\ hdrbuf' = <<>>
               /\ pc' = IF result.body.bytes # <<>> THEN "write_body" ELSE "finish"
               /\ UNCHANGED raised
          ELSE /\ hdrbuf' = hdrbuf \o <<EndOfHeaders>>
               /\ raised' = TRUE
               /\ pc' = "send_error"
               /\ UNCHANGED wire
    /\ UNCHANGED gwVars
    /\ UNCHANGED <<routerVars, mode, startVars, log>>

\* lines 169-170: if response_body: self.wfile.write(response_body)
WriteBody ==
    /\ pc = "write_body"
    /\ \E ok \in BOOLEAN :
          IF ok
          THEN /\ wire' = Append(wire, BodyBytes(result.body.bytes))
               /\ pc' = "finish"
               /\ UNCHANGED raised
          ELSE /\ raised' = TRUE
               /\ pc' = "send_error"
               /\ UNCHANGED wire
    /\ UNCHANGED gwVars
    /\ UNCHANGED <<routerVars, mode, startVars, hdrbuf, log>>

\* lines 171-173: except Exception: send_error(500, ...); raise e.
\* send_error buffers its head after whatever the buffer holds, writes the
\* buffer and then, unless the method is HEAD, the error page; either write
\* may raise, and the handler is left by an exception in every case
SendError ==
    /\ pc = "send_error"
    /\ \E okHead \in BOOLEAN, okBody \in BOOLEAN :
          LET buffered == hdrbuf \o SendErrorHead \o <<EndOfHeaders>>
              withBody == okBody /\ request.method # HEAD
          IN  IF okHead
              THEN /\ wire' = wire \o buffered
                              \o (IF withBody THEN <<BodyBytes(ErrorPage)>> ELSE <<>>)
                   /\ hdrbuf' = <<>>
              ELSE /\ hdrbuf' = buffered
                   /\ UNCHANGED wire
    /\ pc' = "handle_error"
    /\ UNCHANGED gwVars
    /\ UNCHANGED <<routerVars, mode, startVars, raised, log>>

\* socketserver catches the exception (handle_error) and closes the
\* connection (shutdown_request); serve_forever goes on
HandleError ==
    /\ pc = "handle_error"
    /\ log' = Append(log, LogEntry(raised, wire))
    /\ pc' = "serving"
    /\ UNCHANGED gwVars
    /\ UNCHANGED <<routerVars, mode, startVars, hdrbuf, wire, raised>>

\* do_request returns; the connection is closed
Finish ==
    /\ pc = "finish"
    /\ log' = Append(log, LogEntry(raised, wire))
    /\ pc' = "serving"
    /\ UNCHANGED gwVars
    /\ UNCHANGED <<routerVars, mode, startVars, hdrbuf, wire, raised>>

\* lines 185-189: KeyboardInterrupt, which except Exception does not catch,
\* leaves serve_forever
Interrupt ==
    /\ mode = "standalone"
    /\ pc \in {"serving", "route", "send_response", "end_headers", "write_body",
               "send_error", "handle_error", "finish"}
    /\ pc' = "interrupted"
    /\ UNCHANGED gwVars
    /\ UNCHANGED <<routerVars, startVars, connVars, mode>>

\* terminate() called with the server going on to accept requests
TerminateOnInterrupt_KeepsListening ==
    /\ pc = "interrupted"
    /\ sigterms' = sigterms + 1
    /\ pc' = "serving"
    /\ UNCHANGED gwVars
    /\ UNCHANGED <<routerVars, connVars, mode, start_timeout, now, end_time, attempts,
                   lastProbe, proc, portOpen, spawned, api_process, proxy_app>>

\* line 189: one_time_init.api_process.terminate(), then main returns
TerminateOnInterrupt ==
    /\ pc = "interrupted"
    /\ sigterms' = sigterms + 1
    /\ pc' = "exit"
    /\ UNCHANGED gwVars
    /\ UNCHANGED <<routerVars, connVars, mode, start_timeout, now, end_time, attempts,
                   lastProbe, proc, portOpen, spawned, api_process, proxy_app>>

StandaloneNext ==
    \/ Accept \/ RouteRequest \/ SendResponse \/ EndHeaders \/ WriteBody \/ SendError
    \/ HandleError \/ Finish \/ Interrupt \/ TerminateOnInterrupt


(* ---- gateway mode: the host invokes lambda_handler ---- *)
PlainEvent(version, method, path, missing) ==
    Event(version, method, path, <<>>, <<>>, <<>>, <<>>, FALSE, missing)
ServedEvents ==
    {PlainEvent(V_2_0, GET, P_root, {}), PlainEvent(V_2_0, GET, P_api_date, {}),
     PlainEvent(V_1_0, GET, P_root, {}), PlainEvent(V_2_0, GET, P_api_date, {"headers"}),
     PlainEvent(V_2_0, GET, P_api_date, {"isBase64Encoded"})}
ServedRemaining == {1000, 3000}

\* one invocation: lambda_handler(event, context) returns its reply or
\* raises to the host, which stays up for the next invocation
Invoke ==
    /\ mode = "gateway" /\ pc = "idle"
    /\ Len(log) < MaxRequests
    /\ \E ev \in ServedEvents, ms \in ServedRemaining, up \in ServedUpstreams :
          \E h \in {lambda_handler(files, ev, ms, up)} :
              /\ event' = ev
              /\ remaining' = ms
              /\ upstream' = up
              /\ request' = h.request
              /\ result' = h.routed.result
              /\ calls' = h.routed.calls
              /\ sent' = h.routed.sent
              /\ reply' = h.reply
              /\ raised' = (h.reply.kind = "raise")
              /\ log' = Append(log, [raised |-> h.reply.kind = "raise",
                                     statuses |-> IF h.reply.kind = "raise" THEN <<>>
                                                  ELSE <<h.reply.statusCode>>])
    /\ UNCHANGED <<files, mode, pc, startVars, hdrbuf, wire, elapsed, waited>>

Next == StartNext \/ StandaloneNext \/ Invoke
Spec == Init /\ [][Next]_vars

\* the steps of the proxy's own thread that nothing outside it can hold up:
\* the startup loop (sleep and connect_ex to the local host return) and the
\* except branch of main
ProgramStep ==
    \/ Popen \/ Sleep \/ ConnectEx \/ CheckDeadline \/ Terminate \/ RaiseStartup
    \/ ReturnProcess \/ TerminateOnInterrupt
SpecLive == Init /\ [][Next]_vars /\ WF_vars(ProgramStep)

(* ------------------------------------------------------------------ *)
(* lambda_handler alone, applied to a drawn event                      *)
(* ------------------------------------------------------------------ *)
MaxCookies == 2

B64_ff == <<47, 119, 61, 61>>
B64_unpadded == <<47, 119>>
QS_k == <<"k", "=", "a", "+", "b", "&", "k", "=", "c", "&", "e", "=", "&", "x">>
HV_vw == <<"v", ",", "w">>
CookieLists == {[i \in 1..n |-> <<V_a1, V_b2, V_c3>>[i]] : n \in {0, MaxCookies}}

ApiEvent == PlainEvent(V_2_0, GET, P_api_date, {})
Events ==
    {Event(V_2_0, GET, P_api_date, <<>>, h, c, <<>>, FALSE, m) :
        h \in {<<>>, << <<H_XA, HV_vw>> >>, << <<H_Cookie, V_c3>> >>,
               << <<H_cookie_lc, V_c3>> >>},
        c \in CookieLists, m \in {{}, {"cookies"}}}
    \cup {PlainEvent(v, GET, p, m) :
            v \in {V_2_0, V_1_0}, p \in {P_root, P_api_date},
            m \in {{}, {"version"}, {"requestContext"}, {"rawQueryString"}, {"headers"},
                   {"isBase64Encoded"}}}
    \cup {Event(V_2_0, POST, p, q, <<>>, <<>>, b, TRUE, m) :
            p \in {P_api_date, P_missing}, q \in {<<>>, QS_k},
            b \in {<<>>, B64_ff, B64_unpadded}, m \in {{}, {"body"}}}
RemainingChoices == {500, 1000, 3000}

\* response headers of the API server, as a list of (name, value) lines
ContentTypeLines ==
    {<<>>, << <<H_ContentType, T_image_png>>, <<H_CONTENT_TYPE_uc, T_text_html>> >>,
     << <<H_ContentType, T_image_png>>, <<H_ContentType, T_text_html>> >>}
    \cup {<< <<n, t>> >> :
            n \in {H_ContentType, H_CONTENT_TYPE_uc},
            t \in {T_text_html, T_app_js, T_app_json, T_json_utf8, T_json_uc, T_svg,
                   T_image_png, T_app_xml}}
ContentEncodingLines ==
    {<<>>} \cup {<< <<n, e>> >> : n \in {H_ContentEncoding, H_content_encoding_lc},
                                 e \in {V_identity, V_Identity_uc, V_gzip}}
CookieLines ==
    {<<>>, << <<H_SetCookie, V_a1>>, <<H_XA, V_v>>, <<H_SetCookie, V_b2>>, <<H_XA, V_w>> >>,
     << <<H_set_cookie_lc, V_a1>>, <<H_SetCookie, V_b2>>, <<H_set_cookie_lc, V_c3>> >>}
GatewayUpstreams ==
    {Responds(200, ct \o ck \o ce, <<123, 125>>) :
        ct \in ContentTypeLines, ce \in ContentEncodingLines, ck \in CookieLines}

GatewayInit ==
    /\ \E pair \in (Events \X ServedUpstreams) \cup ({ApiEvent} \X GatewayUpstreams) :
          event = pair[1] /\ upstream = pair[2]
    /\ remaining \in RemainingChoices
    /\ reply = ReplyRaise("") /\ elapsed = 0 /\ waited = 0
    /\ files = ServedFiles
    /\ request = NoRequest /\ result = NoResult /\ calls = <<>> /\ sent = <<>>
    /\ mode = "handler" /\ pc = "invoke"
    /\ NoProcess /\ NoConnection

\* lambda_handler(event, context)
Handle ==
    /\ mode = "handler" /\ pc = "invoke"
    /\ \E h \in {lambda_handler(files, event, remaining, upstream)} :
           /\ request' = h.request
           /\ result' = h.routed.result
           /\ calls' = h.routed.calls
           /\ sent' = h.routed.sent
           /\ reply' = h.reply
    /\ pc' = "returned"
    /\ UNCHANGED <<files, upstream, mode, startVars, connVars, event, remaining, elapsed,
                   waited>>

GatewayNext == Handle
SpecGateway == GatewayInit /\ [][GatewayNext]_vars

(* ------------------------------------------------------------------ *)
(* One gateway invocation in time: the blocking socket operations of   *)
(* _api_server_handler under HTTPConnection(timeout=timeout).          *)
(* The timeout bounds each blocking operation, not the call.           *)
(* ------------------------------------------------------------------ *)
\* bound: how far time is followed, in milliseconds
MaxElapsedMs == 6000
\* the steps in which time is followed
BlockSteps == {500, 1000}

CallRemaining == {500, 1000, 1500, 2000, 3000}
SocketOps == {"connect", "getresponse", "read"}

CallInit ==
    /\ event = ApiEvent
    /\ remaining \in CallRemaining
    /\ upstream \in ServedUpstreams
    /\ reply = ReplyRaise("") /\ elapsed = 0 /\ waited = 0
    /\ files = ServedFiles
    /\ request = NoRequest /\ result = NoResult /\ calls = <<>> /\ sent = <<>>
    /\ mode = "call" /\ pc = "invoke"
    /\ NoProcess /\ NoConnection

\* lines 76-103 and 254-263: the event is parsed, the timeout computed and
\* handed through the router to HTTPConnection
OpenConnection ==
    /\ mode = "call" /\ pc = "invoke"
    /\ request' = EventRequest(event, remaining)
    /\ calls' = <<ApiCall(request'.method, request'.path, request'.query, request'.headers,
                          request'.body, request'.timeout)>>
    /\ pc' = IF request'.timeout <= 0 THEN "raised" ELSE "connect"
    /\ result' = IF request'.timeout < 0 THEN Raise("ValueError")
                 ELSE IF request'.timeout = 0 THEN Raise("BlockingIOError")
                 ELSE result
    /\ UNCHANGED <<files, upstream, sent, mode, startVars, connVars, event, remaining, reply,
                   elapsed, waited>>

\* time passes while the current socket operation blocks
Block ==
    /\ mode = "call" /\ pc \in SocketOps
    /\ \E d \in BlockSteps :
          /\ waited + d <= request.timeout
          /\ elapsed + d <= MaxElapsedMs
          /\ elapsed' = elapsed + d
          /\ waited' = waited + d
    /\ UNCHANGED <<routerVars, mode, pc, startVars, connVars, event, remaining, reply>>

\* lines 264-266: the API server accepts the connection; the request is sent
Connected ==
    /\ mode = "call" /\ pc = "connect"
    /\ upstream.kind # "refused"
    /\ waited < request.timeout
    /\ sent' = <<BackendRequest(request.method, request.path, request.query,
                                request.headers, request.body, request.timeout)>>
    /\ pc' = "getresponse"
    /\ waited' = 0
    /\ UNCHANGED <<files, request, upstream, result, calls, mode, startVars, connVars, event,
                   remaining, reply, elapsed>>

\* lines 264-266: nothing listens on the port
ConnectionRefused ==
    /\ mode = "call" /\ pc = "connect"
    /\ upstream.kind = "refused"
    /\ result' = Raise("ConnectionRefusedError")
    /\ pc' = "raised"
    /\ UNCHANGED <<files, request, upstream, calls, sent, mode, startVars, connVars, gwVars>>

\* line 267: the status line and headers arrive
ResponseHead ==
    /\ mode = "call" /\ pc = "getresponse"
    /\ upstream.kind = "response"
    /\ waited < request.timeout
    /\ pc' = "read"
    /\ waited' = 0
    /\ UNCHANGED <<routerVars, mode, startVars, connVars, event, remaining, reply, elapsed>>

\* line 276: response.read() receives a part of the body and blocks again
BodyChunk ==
    /\ mode = "call" /\ pc = "read"
    /\ 0 < waited /\ waited < request.timeout
    /\ waited' = 0
    /\ UNCHANGED <<routerVars, mode, pc, startVars, connVars, event, remaining, reply, elapsed>>

\* lines 269-277: the body is complete, the handler returns
BodyEnd ==
    /\ mode = "call" /\ pc = "read"
    /\ waited < request.timeout
    /\ \E read \in {ResponseRead(request.method, upstream)} :
          /\ result' = IF read.ok
                       THEN Return(upstream.status, GroupPairs(<<>>, upstream.headers),
                                   Some(read.bytes))
                       ELSE Raise("IncompleteRead")
          /\ pc' = IF read.ok THEN "returned" ELSE "raised"
    /\ UNCHANGED <<files, request, upstream, calls, sent, mode, startVars, connVars, gwVars>>

\* the socket operation has blocked for the whole timeout: socket.timeout
SocketTimeout ==
    /\ mode = "call" /\ pc \in SocketOps
    /\ waited >= request.timeout
    /\ result' = Raise("timeout")
    /\ pc' = "raised"
    /\ UNCHANGED <<files, request, upstream, calls, sent, mode, startVars, connVars, gwVars>>

CallNext ==
    \/ OpenConnection \/ Block \/ Connected \/ ConnectionRefused \/ ResponseHead
    \/ BodyChunk \/ BodyEnd \/ SocketTimeout
SpecBackendCall == CallInit /\ [][CallNext]_vars

(* ------------------------------------------------------------------ *)
(* Properties of the process                                           *)
(* ------------------------------------------------------------------ *)
HandlingRequest ==
    pc \in {"route", "send_response", "end_headers", "write_body", "send_error",
            "handle_error", "finish"}
Dispatched == HandlingRequest \/ log # <<>> \/ calls # <<>>

\* C4: when the port does not open within start_timeout and the startup
\* error has left start_api_server_process, the spawned process no longer
\* exists.
C4_ProcessGoneWhenStartRaises == pc = "init_failed" => proc = "exited"

C5_Started ==
    /\ spawned <= 1
    /\ Dispatched =>
          /\ spawned = 1 /\ lastProbe = "connected"
          /\ api_process = "handle" /\ proxy_app = "app"
    /\ pc = "init_failed" => (~Dispatched /\ proxy_app = "unset")
C5_HandleKept ==
    /\ pc = "init_failed" => pc' = "init_failed"
    /\ api_process = "handle" => (api_process' = "handle" /\ spawned' = spawned)
    /\ (HandlingRequest \/ pc = "idle") => sigterms' = sigterms

\* C5: in both modes the API server is spawned once; a request is handed
\* to the router only after start_api_server_process has returned on a
\* successful connect; after a failed start nothing is ever served; and
\* no request replaces the process handle, spawns or signals a process.
C5_StartedOnceBeforeServing == []C5_Started /\ [][C5_HandleKept]_vars

C5_Witness == mode = "gateway" /\ Len(log) >= 2 /\ calls # <<>> /\ spawned = 1

\* C6: in standalone mode a request whose handling raised, and whose
\* error response the connection accepted, was answered with a 500: the
\* one status line its client received is 500.
C6_RaisedRequestGets500 ==
    (mode = "standalone" /\ pc = "handle_error" /\ raised /\ hdrbuf = <<>>) =>
        StatusCodes(wire) = <<500>>

BackendFailed ==
    /\ calls # <<>> /\ calls[1].fn = "_api_server_handler"
    /\ result.kind = "raise" /\ result.exc \in {"ConnectionRefusedError", "timeout"}

\* C7: when a proxied /api/ request fails because the connection is
\* refused or the call times out, the adapter answers with a 5xx: the
\* standalone adapter writes a 5xx status line, the gateway adapter returns
\* a reply whose statusCode is 5xx.
C7_BackendFailureAnswered5xx ==
    /\ (mode = "standalone" /\ pc = "handle_error" /\ BackendFailed /\ hdrbuf = <<>>) =>
          (StatusCodes(wire) # <<>> /\ StatusCodes(wire)[1] \in 500..599)
    /\ (mode = "gateway" /\ pc = "idle" /\ BackendFailed) =>
          (reply.kind = "return" /\ reply.statusCode \in 500..599)

(* ------------------------------------------------------------------ *)
(* Properties of one invocation in time                                *)
(* ------------------------------------------------------------------ *)
\* C8: in gateway mode the timeout handed to the router is the remaining
\* time minus the one-second buffer, and the backend call has returned or
\* raised before the host's deadline, for every remaining time.
C8_CallOverBeforeDeadline ==
    (mode = "call" /\ pc \in {"returned", "raised"}) =>
        /\ request.timeout = remaining - TimeoutBufferMs
        /\ elapsed < remaining

(* ------------------------------------------------------------------ *)
(* Properties of the gateway reply                                     *)
(* ------------------------------------------------------------------ *)
Answered == mode = "handler" /\ pc = "returned" /\ reply.kind = "return"

\* the first value of the last header named lcname in any casing
HeaderOr(headers, lcname, default) ==
    LET at == {i \in DOMAIN headers : Lower(headers[i][1]) = lcname}
    IN  IF at = {} THEN default
        ELSE headers[CHOOSE i \in at : \A j \in at : j <= i][2][1]
TextPrefixes == {T_text_pfx, T_app_js, T_app_json, T_svg}
ExpectedBinary(headers) ==
    \/ HeaderOr(headers, N_lc_content_encoding, V_identity) # V_identity
    \/ ~\E p \in TextPrefixes : StartsWith(HeaderOr(headers, N_lc_content_type, T_text_plain), p)

\* C9: the response is binary when its Content-Encoding (any casing of the
\* name, identity when absent) is not identity, and otherwise exactly when
\* its Content-Type (text/plain when absent) starts with none of text/,
\* application/javascript, application/json, image/svg+xml; the reply's
\* isBase64Encoded is that decision, and its body is the base64 text of the
\* response body when it is true and the response body itself when not.
C9_BinaryDecision ==
    Answered =>
        /\ _is_binary_content(result.headers) = ExpectedBinary(result.headers)
        /\ reply.isBase64Encoded = ExpectedBinary(result.headers)
        /\ IF reply.isBase64Encoded
           THEN /\ B64Padded(reply.body)
                /\ \A i \in DOMAIN reply.body :
                      reply.body[i] = B64Pad \/ \E k \in DOMAIN B64Alphabet : B64Alphabet[k] = reply.body[i]
                /\ standard_b64decode(reply.body) = result.body.bytes
           ELSE reply.body = result.body.bytes

C9_Witness ==
    /\ Answered /\ reply.isBase64Encoded /\ result.body.bytes # <<>>
    /\ HeaderOr(result.headers, N_lc_content_type, T_text_plain) = T_svg
    /\ HeaderOr(result.headers, N_lc_content_encoding, V_identity) = V_gzip

IsSetCookiePair(pair) == Lower(pair[1]) = N_lc_set_cookie

\* C10: the reply's cookies are the values of the response's Set-Cookie
\* headers (any casing), in order, none lost or duplicated; no key of the
\* reply's headers is Set-Cookie in any casing; every other response header
\* is in the reply's headers exactly once, its values comma-joined in order.
C10_CookiesSplitFromHeaders ==
    Answered =>
        LET setCookies == SelectSeq(FlattenDict(result.headers), IsSetCookiePair)
            others == {j \in DOMAIN result.headers : ~IsSetCookiePair(result.headers[j])}
        IN  /\ reply.cookies = [i \in 1..Len(setCookies) |-> setCookies[i][2]]
            /\ \A i \in DOMAIN reply.headers : ~IsSetCookiePair(reply.headers[i])
            /\ Len(reply.headers) = Cardinality(others)
            /\ \A j \in others :
                  /\ Cardinality({i \in DOMAIN reply.headers :
                                    reply.headers[i][1] = result.headers[j][1]}) = 1
                  /\ \A i \in DOMAIN reply.headers :
                        reply.headers[i][1] = result.headers[j][1] =>
                            Split(reply.headers[i][2], ",") = result.headers[j][2]

C10_Witness ==
    /\ Answered /\ Len(reply.cookies) = 2
    /\ \E i \in DOMAIN reply.headers : reply.headers[i] = <<H_XA, HV_vw>>

(* ------------------------------------------------------------------ *)
(* Properties of the request the gateway adapter hands to the router   *)
(* ------------------------------------------------------------------ *)
Parsed == mode = "handler" /\ pc = "returned" /\ EventError(event) = ""
EventCookies == IF "cookies" \in event.missing THEN <<>> ELSE event.cookies
IsCookiePair(pair) == Lower(pair[1]) = H_cookie_lc
\* the values the event's headers hold under Cookie in any casing
CookieValuesOf(headers) ==
    LET pairs == SelectSeq(FlattenDict(headers), IsCookiePair)
    IN  [i \in 1..Len(pairs) |-> pairs[i][2]]

\* C11: the event's cookies are appended in order to the request's Cookie
\* header, found without regard to the casing of its name: the routed
\* request has one Cookie header, holding the values the event's headers
\* had under that name followed by the cookies.
C11_CookiesMergedIntoOneHeader ==
    (Parsed /\ EventCookies # <<>>) =>
        /\ Cardinality({i \in DOMAIN request.headers : IsCookiePair(request.headers[i])}) = 1
        /\ CookieValuesOf(request.headers)
              = CookieValuesOf(SplitHeaders(event.headers)) \o EventCookies

(* ------------------------------------------------------------------ *)
(* Properties of the static file resolver                              *)
(* ------------------------------------------------------------------ *)
StaticRouted == mode = "router" /\ Routed /\ calls[1].fn = "_static_handler"
\* the path _static_handler was called with, resolved as line 284 does
StaticFilepath == PathJoin(STATIC_PATH, LStrip(calls[1].path, "/"))
StaticIsFile == PathExists(files, StaticFilepath) /\ PathIsFile(files, StaticFilepath)
\* the values a header map holds under a name as written
ValuesOf(headers, name) ==
    IF \E i \in DOMAIN headers : headers[i][1] = name
    THEN headers[CHOOSE i \in DOMAIN headers : headers[i][1] = name][2]
    ELSE <<>>

\* C12: a HEAD of a static path that resolves to a regular file returns 200
\* with an empty body, and the Content-Length (the file's size) and the
\* Content-Type that a GET of the same path returns.
C12_HeadMatchesGet ==
    (StaticRouted /\ StaticIsFile /\ Upper(request.method) = HEAD) =>
        LET get == _static_handler(files, GET, calls[1].path)
        IN  /\ result.kind = "return" /\ result.status = 200
            /\ result.body = Some(<<>>)
            /\ get.status = 200
            /\ ValuesOf(result.headers, H_ContentLength)
                  = <<IntToStr(Len(ReadBytes(files, StaticFilepath)))>>
            /\ ValuesOf(result.headers, H_ContentLength) = ValuesOf(get.headers, H_ContentLength)
            /\ ValuesOf(result.headers, H_ContentType) = ValuesOf(get.headers, H_ContentType)
            /\ ValuesOf(result.headers, H_ContentType) # <<>>

C12_Witness ==
    /\ StaticRouted /\ StaticIsFile /\ request.method = HEAD /\ request.path = P_js
    /\ Len(ReadBytes(files, StaticFilepath)) = MaxFileLen
    /\ result.status = 200

(* ------------------------------------------------------------------ *)
(* Properties of every response of the router                          *)
(* ------------------------------------------------------------------ *)
Responded == mode = "router" /\ Routed /\ result.kind = "return"
BodyLength == IF result.body.isNone THEN 0 ELSE Len(result.body.bytes)
\* every Content-Length header of the result, its name in any casing,
\* holds the one value v
EveryContentLengthIs(v) ==
    \A i \in DOMAIN result.headers :
        IsContentLengthPair(result.headers[i]) => result.headers[i][2] = <<v>>

LengthAnnounced ==
    calls[1].fn = "_api_server_handler" =>
        (ExpectedLength(upstream.headers) >= 0
         /\ Len(SelectSeq(upstream.headers, IsContentLengthPair)) = 1)

ServedLocation == Walk(files, Cwd, StaticFilepath).loc
StaticRoot == Walk(files, Cwd, PathSegments(STATIC_PATH)).loc

\* C14: the static file resolver answers 200 only for a regular file
\* located under the static root, whatever the request path, ".." segments
\* included.
C14_OnlyFilesUnderStaticRoot ==
    (StaticRouted /\ result.kind = "return" /\ result.status = 200) =>
        /\ files[ServedLocation].kind = "file"
        /\ Len(ServedLocation) > Len(StaticRoot)
        /\ SubSeq(ServedLocation, 1, Len(StaticRoot)) = StaticRoot

NotFound ==
    Return(404, << <<H_ContentLength, <<IntToStr(9)>>>>, <<H_ContentType, <<T_text_plain>>>> >>,
           Some(B_NotFound))

\* C15: a GET or a HEAD of a static path that does not exist or is not a
\* regular file returns 404 with body Not Found, Content-Type text/plain
\* and Content-Length 9, and nothing of any file in it.
C15_MissingIsNotFound ==
    (mode = "router" /\ Routed /\ calls[1].fn = "_static_handler"
     /\ Upper(request.method) \in {GET, HEAD} /\ ~StaticIsFile) =>
        result = NotFound

BadRequest ==
    Return(401, << <<H_ContentLength, <<IntToStr(11)>>>>, <<H_ContentType, <<T_text_plain>>>> >>,
           Some(B_BadRequest))

\* C16: for a method that is neither GET nor HEAD in any casing, the static
\* file resolver answers 401 with body Bad Request whether or not the path
\* resolves to a file: never 200, never 404.
C16_OtherMethodsAreRejected ==
    (StaticRouted /\ Upper(request.method) \notin {GET, HEAD}) =>
        /\ result = BadRequest
        /\ result.status \notin {200, 404}

C16_Witness ==
    /\ StaticRouted /\ request.method = POST /\ request.path = P_missing /\ ~StaticIsFile
    /\ result.status = 401

(* ------------------------------------------------------------------ *)
(* Properties of invocations in one process                            *)
(* ------------------------------------------------------------------ *)
\* an event of another version, or lacking a field lambda_handler requires
Malformed(ev) ==
    \/ ev.version # V_2_0
    \/ {"version", "requestContext", "rawQueryString", "headers", "isBase64Encoded"}
          \cap ev.missing # {}
Invoked == mode = "gateway" /\ pc = "idle" /\ log # <<>>
InvokeStep == mode = "gateway" /\ Len(log') = Len(log) + 1

C17_FailsAlone ==
    (Invoked /\ Malformed(event)) =>
        /\ reply.kind = "raise" /\ reply.exc \in {"AssertionError", "KeyError"}
        /\ request = NoRequest /\ calls = <<>> /\ sent = <<>>
        /\ api_process = "handle" /\ proxy_app = "app"
C17_ProcessKept ==
    InvokeStep =>
        /\ pc' = "idle" /\ mode' = mode
        /\ api_process' = api_process /\ proxy_app' = proxy_app
        /\ proc' = proc /\ sigterms' = sigterms /\ spawned' = spawned /\ files' = files
        /\ ~Malformed(event') =>
              /\ request' = EventRequest(event', remaining')
              /\ calls' # <<>>
              /\ reply' = lambda_handler(files, event', remaining', upstream').reply

\* C17: an invocation with an event of another version or without a
\* required field raises before anything is routed or sent to the backend;
\* no invocation changes the process handle, the router or the process, the
\* host stays ready, and a well-formed invocation, whatever came before it
\* in the process, is routed and answered as lambda_handler answers it.
C17_MalformedEventFailsAlone == []C17_FailsAlone /\ [][C17_ProcessKept]_vars

C17_Witness ==
    /\ Invoked /\ Len(log) = 2 /\ log[1].raised /\ log[1].statuses = <<>>
    /\ ~Malformed(event) /\ reply.kind = "return" /\ reply.statusCode = 200
    /\ calls # <<>>

(* ------------------------------------------------------------------ *)
(* Properties of shutdown and startup                                  *)
(* ------------------------------------------------------------------ *)
Listening == pc = "serving" \/ HandlingRequest
C18_NotWhileListening ==
    /\ (mode = "standalone" /\ Listening) => sigterms = 0
    /\ pc \in {"interrupted", "exit"} => mode = "standalone"
    /\ pc = "interrupted" => sigterms = 0
    /\ pc = "exit" => sigterms = 1
    /\ (mode = "gateway" /\ api_process = "handle") => sigterms = 0
C18_ListenerStopped ==
    /\ pc = "interrupted" => pc' \in {"interrupted", "exit"}
    /\ pc = "exit" => (pc' = "exit" /\ sigterms' = sigterms)
    /\ pc \in {"interrupted", "exit"} => (log' = log /\ request' = request /\ wire' = wire)

\* C18: in standalone mode the backend is never sent a termination while
\* the server is accepting or handling requests; after an interrupt no
\* request is accepted or handled any more, the backend is then terminated,
\* once; in gateway mode a started backend is never terminated.
C18_InterruptTerminatesOnce ==
    /\ []C18_NotWhileListening
    /\ [][C18_ListenerStopped]_vars
    /\ (pc = "interrupted" ~> pc = "exit")

C18_Witness ==
    /\ pc = "exit" /\ sigterms = 1 /\ Len(log) = 1
    /\ request # NoRequest /\ calls # <<>> /\ hdrbuf # <<>>

InLoop == pc \in {"sleep", "connect", "deadline"}
C19_Outcomes ==
    /\ pc = "started" =>
          (lastProbe = "connected" /\ proc = "running" /\ sigterms = 0 /\ attempts >= 1)
    /\ pc \in {"terminate", "raise"} =>
          (lastProbe = "refused" /\ now >= end_time /\ attempts >= 1)
    /\ pc = "init_failed" => (lastProbe = "refused" /\ api_process = "unset")
    /\ api_process = "handle" => lastProbe = "connected"
C19_LoopStep ==
    /\ (pc = "connect" /\ portOpen) => pc' \in {"connect", "started"}
    /\ (pc = "connect" /\ ~portOpen) => pc' \in {"connect", "deadline"}
    /\ (pc = "deadline" /\ now < end_time) => pc' \in {"deadline", "sleep"}
    /\ InLoop => pc' \in {"sleep", "connect", "deadline", "started", "terminate"}

\* C19: the polling loop of start_api_server_process always ends, either
\* with the handle returned after a connect that succeeded, the process
\* left running and unsignalled, or with the startup error after a deadline
\* that passed with the last connect refused; it connects at least once,
\* with start_timeout 0 too, and a connect that succeeds ends the loop with
\* success whether or not the deadline has passed.
C19_PollingLoopEnds ==
    /\ []C19_Outcomes
    /\ [][C19_LoopStep]_vars
    /\ <>(api_process = "handle" \/ pc = "init_failed")

C19_Witness ==
    pc = "started" /\ start_timeout = 0 /\ now >= end_time /\ attempts = 1

(* ------------------------------------------------------------------ *)
(* Properties of one connection                                        *)
(* ------------------------------------------------------------------ *)
\* C20: in standalone mode at most one status line is written to the
\* connection of a request, and none follows the router's status line when
\* writing the headers or the body fails.
C20_OneResponsePerRequest ==
    mode = "standalone" =>
        /\ Len(StatusCodes(wire)) <= 1
        /\ \A i \in DOMAIN log : Len(log[i].statuses) <= 1
====
